---- MODULE Spec2Model ----
(***************************************************************************)
(* CommentController (src/src/comment.ts): posting a status message as a   *)
(* comment on a pull request or a commit, updating the comment that        *)
(* carries this configuration's identity tag when there is one.            *)
(*                                                                         *)
(* One controller is constructed (inputs, context); postComment is an      *)
(* async method, so several invocations of it can be in flight and         *)
(* interleave at their awaits, that is at the remote calls.  Every action  *)
(* below is one remote call being served together with the local code     *)
(* that runs up to the next await.  The pipeline runs a bounded number of  *)
(* instances of the step; an instance starts its next invocation when its  *)
(* previous one has ended.                                                 *)
(*                                                                         *)
(* Strings are sequences of tokens; String.includes is a contiguous        *)
(* subsequence test.                                                       *)
(***************************************************************************)
EXTENDS Naturals, Sequences, FiniteSets

VARIABLES
    inputs,          \* config.inputs: commentMode, updateComment, identity fields
    context,         \* config.context: payload pull request number, full name, sha
    issueComments,   \* remote: issue/PR comments of the repository, in listing order
    commitComments,  \* remote: commit comments of the repository, in listing order
    searchIndex,     \* remote: the pull requests a search for the sha finds, in order
    inv,             \* per pipeline instance, its invocation of postComment:
                     \* position and locals
    calls,           \* per instance, the remote calls of that invocation, in order
    failedSteps,     \* instances whose invocation called core.setFailed
    runs,            \* number of invocations started so far
    latest,          \* the instance that started the latest invocation
    overlapped,      \* some invocation started while another one was in flight
    raced,           \* some write was served while another invocation, its
                     \* lookup finished, had its own write still pending
    allWrote,        \* every invocation that ended so far returned after its write
    initIssue,       \* the issue comments at construction
    initCommit       \* the commit comments at construction

vars == << inputs, context, issueComments, commitComments, searchIndex, inv, calls,
           failedSteps, runs, latest, overlapped, raced, allWrote,
           initIssue, initCommit >>

----------------------------------------------------------------------------
(* Bounds *)

\* invocations of postComment in one behaviour
MaxRuns == 2
\* pipeline instances, each running one invocation at a time
MaxInFlight == 2
\* comments on the remote at construction, per kind
MaxInit == 2
\* comments per listing page
PerPage == 1

Slots == 1 .. MaxInFlight

----------------------------------------------------------------------------
(* Strings *)

Min(a, b) == IF a < b THEN a ELSE b

\* String.prototype.includes
Includes(s, t) ==
    \E k \in 0 .. Len(s) :
        /\ k + Len(t) <= Len(s)
        /\ SubSeq(s, k + 1, k + Len(t)) = t

Tokens ==
    << "0.12.2", "0.13.0", "1.3.0", "./", "dev", "prod", "plan-only",
       "auto-approve-apply" >>

\* the byte value standing for a token of the serialized options
Code(tok) == CHOOSE k \in 1 .. Len(Tokens) : Tokens[k] = tok

Hex == << "0", "1", "2", "3", "4", "5", "6", "7",
          "8", "9", "a", "b", "c", "d", "e", "f" >>

\* JSON.stringify(options): the five values in the order the object lists them
Stringify(options) ==
    << options.cdktfVersion, options.terraformVersion,
       options.workingDirectory, options.stackName, options.mode >>

RECURSIVE Digest(_, _, _)
Digest(str, k, h) ==
    IF k > Len(str) THEN h
    ELSE Digest(str, k + 1, (h * 31 + Code(str[k])) % 256)

\* a deterministic digest of the string, as hexadecimal digits
hashString(str) ==
    LET h == Digest(str, 1, 7)
    IN  << Hex[(h \div 16) + 1], Hex[(h % 16) + 1] >>

\* JSON.stringify(options) hashed and wrapped in an HTML comment
TagFor(options) ==
    << "<!-- terraform cdk action for options with hash" >>
        \o hashString(Stringify(options)) \o << " -->" >>

\* Faulty variant: a value of the run enters the hashed options
getCommentTagPerRun ==
    LET options == [ cdktfVersion     |-> inputs.cdktfVersion,
                     terraformVersion |-> inputs.terraformVersion,
                     workingDirectory |-> inputs.workingDirectory,
                     stackName        |-> inputs.stackName,
                     mode             |-> inputs.mode ]
    IN  << "<!-- terraform cdk action for options with hash" >>
            \o hashString(Stringify(options) \o << Tokens[runs + 1] >>)
            \o << " -->" >>

getCommentTag ==
    LET options == [ cdktfVersion     |-> inputs.cdktfVersion,
                     terraformVersion |-> inputs.terraformVersion,
                     workingDirectory |-> inputs.workingDirectory,
                     stackName        |-> inputs.stackName,
                     mode             |-> inputs.mode ]
    IN  TagFor(options)

\* Faulty variant: the line break between tag and message is missing
messageWithTagNoBreak(i) == getCommentTag \o inv[i].message

\* `${tag}\n${message}`
messageWithTag(i) == getCommentTag \o << "\n" >> \o inv[i].message

\* comment.body?.includes(tag)
BodyIncludes(comment, tag) == Includes(comment.body, tag)

----------------------------------------------------------------------------
(* The inputs the model draws from *)

Modes == { "none", "pr", "commit", "comment" }

Identities ==
    [ cdktfVersion     : { "0.12.2" },
      terraformVersion : { "1.3.0" },
      workingDirectory : { "./" },
      stackName        : { "dev" },
      mode             : { "plan-only", "auto-approve-apply" } ]

Identity1 ==
    [ cdktfVersion |-> "0.12.2", terraformVersion |-> "1.3.0",
      workingDirectory |-> "./", stackName |-> "dev", mode |-> "plan-only" ]

Identity2 == [ Identity1 EXCEPT !.mode = "auto-approve-apply" ]

\* the triggering events: a pull request event, a push, and an event whose
\* payload names no repository and whose commit is gone (number 0, full_name ""
\* and sha "" stand for the absent values, all of them falsy)
Contexts ==
    { [ number |-> 1, full_name |-> "o/r", sha |-> "abc" ],
      [ number |-> 0, full_name |-> "o/r", sha |-> "abc" ],
      [ number |-> 0, full_name |-> "",    sha |-> "" ] }

Messages == { << "plan ok" >>, << "apply failed" >> }

\* bodies of the comments found on the remote at construction: an earlier
\* comment of the first identity, and a text quoting the tag of the second
InitBodies ==
    { TagFor(Identity1) \o << "\n", "old" >>,
      << "re:" >> \o TagFor(Identity2) }

SeqsUpTo(S, n) == UNION { [ 1 .. k -> S ] : k \in 0 .. n }

\* the remote numbers the comments of a kind in creation order
Numbered(raw, target) ==
    [ k \in 1 .. Len(raw) |->
        [ id |-> k, target |-> target, body |-> raw[k] ] ]

\* the answers of a search: nothing, one pull request, or two of them with
\* the higher number first
SearchResults == { << >>, << 1 >>, << 2, 1 >> }

NoCall ==
    [ op |-> "", ok |-> TRUE, number |-> 0, sha |-> "", q |-> << >>,
      page |-> 0, data |-> << >>, more |-> FALSE, items |-> << >>,
      id |-> 0, body |-> << >> ]

Fresh ==
    [ pc |-> "idle", message |-> << >>, pull_number |-> 0, page |-> 0,
      commentList |-> << >>, previousComment |-> 0 ]

Init ==
    /\ \E id \in Identities :
       \E cm \in Modes :
       \E uc \in BOOLEAN :
           inputs = [ commentMode      |-> cm,
                      updateComment    |-> uc,
                      cdktfVersion     |-> id.cdktfVersion,
                      terraformVersion |-> id.terraformVersion,
                      workingDirectory |-> id.workingDirectory,
                      stackName        |-> id.stackName,
                      mode             |-> id.mode ]
    /\ context \in Contexts
    /\ \E raw \in SeqsUpTo(InitBodies, MaxInit) :
           IF inputs.commentMode = "commit"
           THEN issueComments = << >> /\ commitComments = Numbered(raw, "abc")
           ELSE issueComments = Numbered(raw, 1) /\ commitComments = << >>
    /\ searchIndex \in SearchResults
    /\ ( \/ inputs.commentMode # "pr"
         \/ context.number # 0
         \/ context.full_name = "" ) => searchIndex = << >>
    /\ inv = [ i \in Slots |-> Fresh ]
    /\ calls = [ i \in Slots |-> << >> ]
    /\ failedSteps = { }
    /\ runs = 0
    /\ latest = 0
    /\ overlapped = FALSE
    /\ raced = FALSE
    /\ allWrote = TRUE
    /\ initIssue = issueComments
    /\ initCommit = commitComments

----------------------------------------------------------------------------
(* The remote platform *)

IssueCommentsOf(number) == SelectSeq(issueComments, LAMBDA c : c.target = number)

CommitCommentsOf(sha) == SelectSeq(commitComments, LAMBDA c : c.target = sha)

\* page k of a listing, and whether the response links to a next page
PageOf(list, k) == SubSeq(list, (k - 1) * PerPage + 1, Min(k * PerPage, Len(list)))

HasNext(list, k) == Len(list) > k * PerPage

----------------------------------------------------------------------------
(* The invocations *)

Pending == { "search", "list", "write" }

InFlight == { j \in Slots : inv[j].pc \in Pending }

\* Faulty variant: the last comment with the tag instead of the first
FirstMatchLast(list, tag) ==
    IF \E k \in 1 .. Len(list) : BodyIncludes(list[k], tag)
    THEN LET k == CHOOSE k \in 1 .. Len(list) :
                    /\ BodyIncludes(list[k], tag)
                    /\ \A l \in k + 1 .. Len(list) : ~BodyIncludes(list[l], tag)
         IN  list[k].id
    ELSE 0

\* Faulty variant: the body compared with the tag instead of searched for it
FirstMatchExact(list, tag) ==
    IF \E k \in 1 .. Len(list) : list[k].body = tag
    THEN LET k == CHOOSE k \in 1 .. Len(list) :
                    /\ list[k].body = tag
                    /\ \A l \in 1 .. k - 1 : list[l].body # tag
         IN  list[k].id
    ELSE 0

\* Array.prototype.find with comment.body?.includes(tag), and the scan of a
\* page on the commit path: the id of the first comment of the list whose
\* body contains the tag, 0 when there is none
FirstMatch(list, tag) ==
    IF \E k \in 1 .. Len(list) : BodyIncludes(list[k], tag)
    THEN LET k == CHOOSE k \in 1 .. Len(list) :
                    /\ BodyIncludes(list[k], tag)
                    /\ \A l \in 1 .. k - 1 : ~BodyIncludes(list[l], tag)
         IN  list[k].id
    ELSE 0

\* what an action that is not a successful write leaves alone or records:
\* allWrote falls when it ends the invocation
Step(i) ==
    /\ allWrote' = (allWrote /\ inv'[i].pc \in Pending)
    /\ UNCHANGED << inputs, context, searchIndex, issueComments, commitComments,
                    raced, initIssue, initCommit >>

\* a new invocation, on the first instance that is not running one
Start(i, msg) ==
    /\ runs < MaxRuns
    /\ i \notin InFlight
    /\ \A j \in 1 .. i - 1 : j \in InFlight
    /\ runs' = runs + 1
    /\ latest' = i
    /\ overlapped' = (overlapped \/ InFlight # { })
    /\ calls' = [ calls EXCEPT ![i] = << >> ]
    /\ Step(i)

\* Faulty variant: the pull number is not checked
AfterPullNumberUnchecked(r, pull_number) ==
    IF inputs.updateComment
    THEN [ r EXCEPT !.pull_number = pull_number, !.pc = "list", !.page = 1 ]
    ELSE [ r EXCEPT !.pull_number = pull_number, !.pc = "write" ]

\* postCommentOnPr from the pull number on: the no-op return, the tag, and the
\* choice between looking for a previous comment and writing at once
AfterPullNumber(r, pull_number) ==
    IF pull_number = 0
    THEN [ r EXCEPT !.pc = "returned" ]
    ELSE IF inputs.updateComment
         THEN [ r EXCEPT !.pull_number = pull_number, !.pc = "list", !.page = 1 ]
         ELSE [ r EXCEPT !.pull_number = pull_number, !.pc = "write" ]

\* commentMode === "none"
PostCommentNone(i, msg) ==
    /\ inputs.commentMode = "none"
    /\ inv' = [ inv EXCEPT ![i] = [ Fresh EXCEPT !.pc = "returned", !.message = msg ] ]
    /\ failedSteps' = failedSteps \ { i }
    /\ Start(i, msg)

\* commentMode === "pr": getPullNumber up to the search call
PostCommentOnPr(i, msg) ==
    /\ inputs.commentMode = "pr"
    /\ LET r == [ Fresh EXCEPT !.message = msg ]
       IN  inv' = [ inv EXCEPT ![i] =
                IF context.number # 0
                THEN AfterPullNumber(r, context.number)
                ELSE IF context.full_name = ""
                     THEN AfterPullNumber(r, 0)
                     ELSE [ r EXCEPT !.pc = "search" ] ]
    /\ failedSteps' = failedSteps \ { i }
    /\ Start(i, msg)

\* commentMode === "commit"
PostCommentOnCommit(i, msg) ==
    /\ inputs.commentMode = "commit"
    /\ LET r == [ Fresh EXCEPT !.message = msg ]
       IN  inv' = [ inv EXCEPT ![i] =
                IF context.sha = ""
                THEN [ r EXCEPT !.pc = "returned" ]
                ELSE IF inputs.updateComment
                     THEN [ r EXCEPT !.pc = "list", !.page = 1 ]
                     ELSE [ r EXCEPT !.pc = "write" ] ]
    /\ failedSteps' = failedSteps \ { i }
    /\ Start(i, msg)

\* Faulty variant: an unrecognized mode is passed over in silence
PostCommentUnrecognizedSilent(i, msg) ==
    /\ inputs.commentMode \notin { "none", "pr", "commit" }
    /\ inv' = [ inv EXCEPT ![i] = [ Fresh EXCEPT !.pc = "returned", !.message = msg ] ]
    /\ failedSteps' = failedSteps \ { i }
    /\ Start(i, msg)

\* any other commentMode: core.setFailed
PostCommentUnrecognized(i, msg) ==
    /\ inputs.commentMode \notin { "none", "pr", "commit" }
    /\ inv' = [ inv EXCEPT ![i] = [ Fresh EXCEPT !.pc = "returned", !.message = msg ] ]
    /\ failedSteps' = failedSteps \cup { i }
    /\ Start(i, msg)

\* the remote call the invocation is waiting on, as it was sent
Request(i) ==
    CASE inv[i].pc = "search" ->
            [ NoCall EXCEPT !.op = "search",
                            !.q = << "is:pr repo:", context.full_name,
                                     " sha:", context.sha >> ]
      [] inv[i].pc = "list" /\ inputs.commentMode = "pr" ->
            [ NoCall EXCEPT !.op = "list", !.number = inv[i].pull_number,
                            !.page = inv[i].page ]
      [] inv[i].pc = "list" /\ inputs.commentMode # "pr" ->
            [ NoCall EXCEPT !.op = "list", !.sha = context.sha,
                            !.page = inv[i].page ]
      [] inv[i].pc = "write" /\ inv[i].previousComment # 0 ->
            [ NoCall EXCEPT !.op = "update", !.id = inv[i].previousComment,
                            !.body = messageWithTag(i) ]
      [] inv[i].pc = "write" /\ inputs.commentMode = "pr" ->
            [ NoCall EXCEPT !.op = "create", !.number = inv[i].pull_number,
                            !.body = messageWithTag(i) ]
      [] OTHER ->
            [ NoCall EXCEPT !.op = "create", !.sha = context.sha,
                            !.body = messageWithTag(i) ]

\* what a read call leaves alone
Read(i) ==
    /\ UNCHANGED << failedSteps, runs, latest, overlapped >>
    /\ Step(i)

\* Faulty variant: the number of the last item found
SearchPullRequestsLast(i) ==
    /\ inv[i].pc = "search"
    /\ LET items == searchIndex IN
       /\ calls' = [ calls EXCEPT ![i] =
               Append(@, [ Request(i) EXCEPT !.items = items ]) ]
       /\ inv' = [ inv EXCEPT ![i] =
               AfterPullNumber(@, IF Len(items) # 0 THEN items[Len(items)] ELSE 0) ]
    /\ Read(i)

\* octokit.rest.search.issuesAndPullRequests answers with the items found
SearchPullRequests(i) ==
    /\ inv[i].pc = "search"
    /\ LET items == searchIndex IN
       /\ calls' = [ calls EXCEPT ![i] =
               Append(@, [ Request(i) EXCEPT !.items = items ]) ]
       /\ inv' = [ inv EXCEPT ![i] =
               AfterPullNumber(@, IF Len(items) # 0 THEN items[1] ELSE 0) ]
    /\ Read(i)

\* fetchPreviousPrComment: octokit.paginate requests one more page of the issue's
\* comments; after the last page, find the first comment with the tag
ListIssueComments(i) ==
    /\ inv[i].pc = "list"
    /\ inputs.commentMode = "pr"
    /\ LET list == IssueCommentsOf(inv[i].pull_number)
           data == PageOf(list, inv[i].page)
           more == HasNext(list, inv[i].page)
           commentList == inv[i].commentList \o data
       IN  /\ calls' = [ calls EXCEPT ![i] =
                    Append(@, [ Request(i) EXCEPT !.data = data, !.more = more ]) ]
           /\ inv' = [ inv EXCEPT ![i] =
                    IF more
                    THEN [ @ EXCEPT !.commentList = commentList, !.page = @ + 1 ]
                    ELSE [ @ EXCEPT !.commentList = commentList,
                                    !.previousComment =
                                        FirstMatch(commentList, getCommentTag),
                                    !.pc = "write" ] ]
    /\ Read(i)

\* Faulty variant: the loop over the pages does not leave at a match
ListCommitCommentsDrain(i) ==
    /\ inv[i].pc = "list"
    /\ inputs.commentMode = "commit"
    /\ LET list == CommitCommentsOf(context.sha)
           data == PageOf(list, inv[i].page)
           more == HasNext(list, inv[i].page)
           previousComment ==
               IF inv[i].previousComment # 0 THEN inv[i].previousComment
               ELSE FirstMatch(data, getCommentTag)
       IN  /\ calls' = [ calls EXCEPT ![i] =
                    Append(@, [ Request(i) EXCEPT !.data = data, !.more = more ]) ]
           /\ inv' = [ inv EXCEPT ![i] =
                    IF more
                    THEN [ @ EXCEPT !.previousComment = previousComment,
                                    !.page = @ + 1 ]
                    ELSE [ @ EXCEPT !.previousComment = previousComment,
                                    !.pc = "write" ] ]
    /\ Read(i)

\* fetchPreviousCommitComment: the iterator requests one more page of the
\* commit's comments; the loop leaves at the first comment with the tag
ListCommitComments(i) ==
    /\ inv[i].pc = "list"
    /\ inputs.commentMode = "commit"
    /\ LET list == CommitCommentsOf(context.sha)
           data == PageOf(list, inv[i].page)
           more == HasNext(list, inv[i].page)
           previousComment == FirstMatch(data, getCommentTag)
       IN  /\ calls' = [ calls EXCEPT ![i] =
                    Append(@, [ Request(i) EXCEPT !.data = data, !.more = more ]) ]
           /\ inv' = [ inv EXCEPT ![i] =
                    IF previousComment = 0 /\ more
                    THEN [ @ EXCEPT !.page = @ + 1 ]
                    ELSE [ @ EXCEPT !.previousComment = previousComment,
                                    !.pc = "write" ] ]
    /\ Read(i)

\* the write call resolves and postComment returns
Written(i) ==
    /\ calls' = [ calls EXCEPT ![i] = Append(@, Request(i)) ]
    /\ inv' = [ inv EXCEPT ![i].pc = "returned" ]
    /\ raced' = (raced \/ \E j \in Slots \ { i } : inv[j].pc = "write")
    /\ UNCHANGED << inputs, context, searchIndex, failedSteps, runs, latest,
                    overlapped, allWrote, initIssue, initCommit >>

\* Faulty variant: no return after the update, the create follows
UpdateIssueCommentNoReturn(i) ==
    /\ inv[i].pc = "write"
    /\ inputs.commentMode = "pr"
    /\ inv[i].previousComment # 0
    /\ issueComments' = [ issueComments EXCEPT ![inv[i].previousComment] =
            [ @ EXCEPT !.body = messageWithTag(i) ] ]
    /\ calls' = [ calls EXCEPT ![i] = Append(@, Request(i)) ]
    /\ inv' = [ inv EXCEPT ![i].previousComment = 0 ]
    /\ UNCHANGED << inputs, context, searchIndex, commitComments, failedSteps,
                    runs, latest, overlapped, raced, allWrote, initIssue,
                    initCommit >>

\* octokit.rest.issues.updateComment
UpdateIssueComment(i) ==
    /\ inv[i].pc = "write"
    /\ inputs.commentMode = "pr"
    /\ inv[i].previousComment # 0
    /\ issueComments' = [ issueComments EXCEPT ![inv[i].previousComment] =
            [ @ EXCEPT !.body = messageWithTag(i) ] ]
    /\ UNCHANGED commitComments
    /\ Written(i)

\* octokit.rest.issues.createComment
CreateIssueComment(i) ==
    /\ inv[i].pc = "write"
    /\ inputs.commentMode = "pr"
    /\ inv[i].previousComment = 0
    /\ issueComments' = Append(issueComments,
            [ id |-> Len(issueComments) + 1, target |-> inv[i].pull_number,
              body |-> messageWithTag(i) ])
    /\ UNCHANGED commitComments
    /\ Written(i)

\* octokit.rest.repos.updateCommitComment
UpdateCommitComment(i) ==
    /\ inv[i].pc = "write"
    /\ inputs.commentMode = "commit"
    /\ inv[i].previousComment # 0
    /\ commitComments' = [ commitComments EXCEPT ![inv[i].previousComment] =
            [ @ EXCEPT !.body = messageWithTag(i) ] ]
    /\ UNCHANGED issueComments
    /\ Written(i)

\* octokit.rest.repos.createCommitComment
CreateCommitComment(i) ==
    /\ inv[i].pc = "write"
    /\ inputs.commentMode = "commit"
    /\ inv[i].previousComment = 0
    /\ commitComments' = Append(commitComments,
            [ id |-> Len(commitComments) + 1, target |-> context.sha,
              body |-> messageWithTag(i) ])
    /\ UNCHANGED issueComments
    /\ Written(i)

\* Faulty variant: the rejection is caught and the invocation goes on as if the call
\* had found nothing
RemoteCallFailsCaught(i) ==
    /\ inv[i].pc \in Pending
    /\ calls' = [ calls EXCEPT ![i] = Append(@, [ Request(i) EXCEPT !.ok = FALSE ]) ]
    /\ inv' = [ inv EXCEPT ![i].pc =
            IF inv[i].pc = "list" THEN "write" ELSE "returned" ]
    /\ Read(i)

\* the awaited remote call rejects (network, auth, rate limit, 404): nothing
\* catches it, the promise postComment returned rejects with it
RemoteCallFails(i) ==
    /\ inv[i].pc \in Pending
    /\ calls' = [ calls EXCEPT ![i] = Append(@, [ Request(i) EXCEPT !.ok = FALSE ]) ]
    /\ inv' = [ inv EXCEPT ![i].pc = "threw" ]
    /\ Read(i)

Next ==
    \E i \in Slots :
        \/ \E msg \in Messages : PostCommentNone(i, msg)
        \/ \E msg \in Messages : PostCommentOnPr(i, msg)
        \/ \E msg \in Messages : PostCommentOnCommit(i, msg)
        \/ \E msg \in Messages : PostCommentUnrecognized(i, msg)
        \/ SearchPullRequests(i)
        \/ ListIssueComments(i)
        \/ ListCommitComments(i)
        \/ UpdateIssueComment(i)
        \/ CreateIssueComment(i)
        \/ UpdateCommitComment(i)
        \/ CreateCommitComment(i)
        \/ RemoteCallFails(i)

Spec == Init /\ [][Next]_vars

----------------------------------------------------------------------------
(* Observations on the call log and the remote *)

Started(i) == inv[i].pc # "idle"

Returned(i) == inv[i].pc = "returned"

Threw(i) == inv[i].pc = "threw"

Ended(i) == Returned(i) \/ Threw(i)

OnRemoteMode == inputs.commentMode \in { "pr", "commit" }

\* the calls of a kind an invocation issued
CallsOf(i, op) == SelectSeq(calls[i], LAMBDA c : c.op = op)

Count(i, op) == Len(CallsOf(i, op))

Writes(i) == SelectSeq(calls[i], LAMBDA c : c.op \in { "create", "update" })

\* no search and no listing page of the invocation failed
LookupOk(i) ==
    \A k \in 1 .. Len(calls[i]) :
        calls[i][k].op \in { "search", "list" } => calls[i][k].ok

RECURSIVE Flatten(_)
Flatten(pages) ==
    IF pages = << >> THEN << >> ELSE Head(pages).data \o Flatten(Tail(pages))

\* the comments the invocation's listing returned, in listing order
Seen(i) == Flatten(SelectSeq(calls[i], LAMBDA c : c.op = "list" /\ c.ok))

\* the tag of the configured identity fields
ExpectedTag ==
    TagFor([ cdktfVersion     |-> inputs.cdktfVersion,
             terraformVersion |-> inputs.terraformVersion,
             workingDirectory |-> inputs.workingDirectory,
             stackName        |-> inputs.stackName,
             mode             |-> inputs.mode ])

Tagged(comment) == Includes(comment.body, ExpectedTag)

\* the comments of a list that contain the tag
TaggedIn(list) ==
    LET tag == ExpectedTag IN SelectSeq(list, LAMBDA c : Includes(c.body, tag))

\* the positions of a list whose comment contains the tag
Matches(list) ==
    LET tag == ExpectedTag IN { k \in 1 .. Len(list) : Includes(list[k].body, tag) }

FirstOf(S) == CHOOSE k \in S : \A l \in S : k <= l

ExpectedBody(i) == ExpectedTag \o << "\n" >> \o inv[i].message

\* the pull request an invocation is to comment on, 0 when there is none:
\* the event's own, else the first one its search found
ResolvedNumber(i) ==
    IF context.number # 0 THEN context.number
    ELSE LET found == SelectSeq(calls[i],
                        LAMBDA c : c.op = "search" /\ c.ok /\ Len(c.items) > 0)
         IN  IF found # << >> THEN found[1].items[1] ELSE 0

TargetResolved(i) ==
    IF inputs.commentMode = "pr" THEN ResolvedNumber(i) # 0 ELSE context.sha # ""

\* the comments on the target of the controller that contain the tag
TaggedOnTarget(i) ==
    IF inputs.commentMode = "pr"
    THEN TaggedIn(IssueCommentsOf(ResolvedNumber(i)))
    ELSE TaggedIn(CommitCommentsOf(context.sha))

InitTaggedOnTarget(i) ==
    IF inputs.commentMode = "pr"
    THEN LET n == ResolvedNumber(i)
         IN  TaggedIn(SelectSeq(initIssue, LAMBDA c : c.target = n))
    ELSE TaggedIn(SelectSeq(initCommit, LAMBDA c : c.target = context.sha))

----------------------------------------------------------------------------
(* C1: in mode pr or commit with updateComment set, an invocation whose      *)
(* lookup went through and whose listing returned a comment containing the   *)
(* tag issues exactly one update call and no create call; the update names   *)
(* the id of the first such comment in listing order, and its body is the    *)
(* tag, a line break, then the message.                                      *)
C1_UpdateExisting ==
    \A i \in Slots :
        ( /\ OnRemoteMode
          /\ inputs.updateComment
          /\ Ended(i)
          /\ LookupOk(i)
          /\ Matches(Seen(i)) # { } )
        => LET seen == Seen(i)
               updates == CallsOf(i, "update")
           IN  /\ Len(updates) = 1
               /\ Count(i, "create") = 0
               /\ updates[1].id = seen[FirstOf(Matches(seen))].id
               /\ updates[1].body = ExpectedBody(i)

\* a pull request holding two comments with the tag, the first one updated
C1_Witness ==
    \E i \in Slots :
        /\ inputs.commentMode = "pr"
        /\ inputs.updateComment
        /\ Returned(i)
        /\ Cardinality(Matches(Seen(i))) = 2
        /\ Count(i, "update") = 1
        /\ issueComments[1].body = ExpectedBody(i)

(* C2: in mode pr or commit, an invocation whose target is resolved and      *)
(* whose lookup went through, and that either has updateComment unset or     *)
(* was returned no comment containing the tag, issues exactly one create     *)
(* call and no update call; the create names the resolved pull request       *)
(* number (pr) or the commit sha (commit), and its body is the tag, a line   *)
(* break, then the message.                                                  *)
C2_CreateWhenNone ==
    \A i \in Slots :
        ( /\ OnRemoteMode
          /\ Ended(i)
          /\ LookupOk(i)
          /\ TargetResolved(i)
          /\ (~inputs.updateComment \/ Matches(Seen(i)) = { }) )
        => LET creates == CallsOf(i, "create")
           IN  /\ Len(creates) = 1
               /\ Count(i, "update") = 0
               /\ creates[1].body = ExpectedBody(i)
               /\ IF inputs.commentMode = "pr"
                  THEN creates[1].number = ResolvedNumber(i)
                  ELSE creates[1].sha = context.sha

\* a create on pull request 1 after two pages of comments without the tag
C2_Witness ==
    \E i \in Slots :
        /\ inputs.commentMode = "pr"
        /\ inputs.updateComment
        /\ context.number = 1
        /\ Returned(i)
        /\ Count(i, "list") = 2
        /\ Len(Seen(i)) = 2
        /\ Count(i, "create") = 1
        /\ issueComments[3].body = ExpectedBody(i)

(* C3: at every moment, in every mode and on every path, an invocation has   *)
(* issued at most one search call, the pages of at most one listing (pages   *)
(* 1, 2, ... of one target, each requested once) and at most one write call, *)
(* so never a create and an update; the write, if any, is the last call of   *)
(* the invocation, after its search and all its listing pages.               *)
C3_OneSequence ==
    \A i \in Slots :
        /\ Count(i, "search") <= 1
        /\ LET L == CallsOf(i, "list")
           IN  \A k \in 1 .. Len(L) :
                   /\ L[k].page = k
                   /\ L[k].number = L[1].number
                   /\ L[k].sha = L[1].sha
        /\ Len(Writes(i)) <= 1
        /\ \A k \in 1 .. Len(calls[i]) :
               calls[i][k].op \in { "create", "update" } => k = Len(calls[i])
        /\ \A k \in 1 .. Len(calls[i]) :
               calls[i][k].op = "search" => k = 1
        /\ ~OnRemoteMode => calls[i] = << >>

\* a search, two listing pages, then the one write
C3_Witness ==
    \E i \in Slots :
        /\ Returned(i)
        /\ Len(calls[i]) = 4
        /\ calls[i][1].op = "search"
        /\ calls[i][2].op = "list"
        /\ calls[i][3].op = "list"
        /\ calls[i][4].op = "update"

(* C4: starting from a target that holds no comment containing the tag,      *)
(* after n >= 1 invocations that ran one after the other with updateComment  *)
(* set, each returning after its write, the target holds exactly one         *)
(* comment containing the tag, and its body is the tag, a line break, then   *)
(* the message of the last invocation.                                       *)
C4_IdempotentReuse ==
    ( /\ OnRemoteMode
      /\ inputs.updateComment
      /\ runs >= 1
      /\ InFlight = { }
      /\ ~overlapped
      /\ allWrote
      /\ InitTaggedOnTarget(latest) = << >> )
    => /\ Len(TaggedOnTarget(latest)) = 1
       /\ TaggedOnTarget(latest)[1].body = ExpectedBody(latest)

\* two runs in a row on a pull request found by search, the second one
\* replacing the message of the first
C4_Witness ==
    /\ inputs.commentMode = "pr"
    /\ inputs.updateComment
    /\ context.number = 0
    /\ runs = 2
    /\ InFlight = { }
    /\ ~overlapped
    /\ allWrote
    /\ Count(latest, "update") = 1
    /\ InitTaggedOnTarget(latest) = << >>
    /\ Len(TaggedOnTarget(latest)) = 1
    /\ inv[latest].message = << "apply failed" >>
    /\ issueComments[Len(issueComments)].body = ExpectedBody(latest)

(* C5: on the PR path, when the event names no pull request and either the   *)
(* payload names no repository or the search returns no result, the          *)
(* invocation returns with no listing and no write call (no call at all      *)
(* without a repository); on the commit path, when the sha is empty, it     *)
(* returns with no remote call; in neither case is a failure reported.       *)
C5_UnresolvableNoOp ==
    \A i \in Slots :
        Started(i) =>
            /\ ( /\ inputs.commentMode = "pr"
                 /\ context.number = 0
                 /\ context.full_name = "" )
               => Returned(i) /\ calls[i] = << >> /\ i \notin failedSteps
            /\ ( /\ inputs.commentMode = "pr"
                 /\ context.number = 0
                 /\ Count(i, "search") = 1
                 /\ CallsOf(i, "search")[1].ok
                 /\ CallsOf(i, "search")[1].items = << >> )
               => /\ Returned(i)
                  /\ Len(calls[i]) = 1
                  /\ i \notin failedSteps
            /\ (inputs.commentMode = "commit" /\ context.sha = "")
               => Returned(i) /\ calls[i] = << >> /\ i \notin failedSteps

\* a search that finds nothing, after which the invocation has returned
C5_Witness ==
    \E i \in Slots :
        /\ inputs.commentMode = "pr"
        /\ context.number = 0
        /\ Count(i, "search") = 1
        /\ CallsOf(i, "search")[1].ok
        /\ CallsOf(i, "search")[1].items = << >>
        /\ Returned(i)
        /\ issueComments = initIssue

(* C6: on the PR path, an event that names a pull request makes its number   *)
(* the target with no search call; otherwise a search is issued only with a  *)
(* repository full name, and the number of its first result is the target.  *)
(* Every listing page and the create call of the invocation name exactly     *)
(* this number, and with updateComment set the listing precedes the write.   *)
C6_PullNumber ==
    \A i \in Slots :
        inputs.commentMode = "pr" =>
            /\ context.number # 0 => Count(i, "search") = 0
            /\ Count(i, "search") > 0 => context.full_name # ""
            /\ LET n == ResolvedNumber(i)
                   addressed == SelectSeq(calls[i],
                                    LAMBDA c : c.op \in { "list", "create" })
               IN  \A k \in 1 .. Len(addressed) :
                       n # 0 /\ addressed[k].number = n
            /\ (inputs.updateComment /\ Writes(i) # << >>) => Count(i, "list") >= 1
            /\ (Returned(i) /\ ResolvedNumber(i) # 0) => Len(Writes(i)) = 1

\* the search found pull requests 2 and 1: listing and create go to 2
C6_Witness ==
    \E i \in Slots :
        /\ inputs.commentMode = "pr"
        /\ inputs.updateComment
        /\ Count(i, "search") = 1
        /\ CallsOf(i, "search")[1].items = << 2, 1 >>
        /\ Returned(i)
        /\ CallsOf(i, "list")[1].number = 2
        /\ Count(i, "create") = 1
        /\ CallsOf(i, "create")[1].number = 2

C8_OnlyPrAndCommit ==
    ~OnRemoteMode =>
        /\ issueComments = initIssue
        /\ commitComments = initCommit
        /\ \A i \in Slots :
               /\ calls[i] = << >>
               /\ Started(i) => Returned(i)
               /\ i \in failedSteps <=> (Started(i) /\ inputs.commentMode # "none")

\* an unrecognized mode: the second invocation has returned like the first,
\* the failure reported
C8_Witness ==
    /\ inputs.commentMode = "comment"
    /\ inputs.updateComment
    /\ runs = 2
    /\ Returned(1)
    /\ failedSteps = { 1 }

(* C9: a remote call that fails is the last call of its invocation, which    *)
(* ends with that failure: no call follows it, so a failed search or         *)
(* listing is never followed by a create or an update and the call is not    *)
(* issued again; and an invocation only ends in failure on a failed call.    *)
C9_FailurePropagates ==
    \A i \in Slots :
        /\ \A k \in 1 .. Len(calls[i]) :
               ~calls[i][k].ok => k = Len(calls[i]) /\ Threw(i)
        /\ Threw(i) => calls[i] # << >> /\ ~calls[i][Len(calls[i])].ok

\* the second listing page fails after a search and a first page
C9_Witness ==
    \E i \in Slots :
        /\ Threw(i)
        /\ Len(calls[i]) = 3
        /\ calls[i][1].op = "search"
        /\ calls[i][3].op = "list"
        /\ ~calls[i][3].ok

(* C10: two invocations with updateComment set, on a target that held no     *)
(* comment containing the tag, both returning after their write.  If one     *)
(* wrote while the other, its listing finished, had its write pending, both  *)
(* issued a create and the target holds two comments containing the tag; if  *)
(* they did not overlap, it holds exactly one.  Nothing removes a            *)
(* duplicate: every comment added since the start contains the tag, and      *)
(* every comment that contained it at the start still does.                  *)
C10_DuplicateUnderRace ==
    LET two == /\ OnRemoteMode
               /\ inputs.updateComment
               /\ runs = 2
               /\ InFlight = { }
               /\ allWrote
               /\ InitTaggedOnTarget(latest) = << >>
    IN  /\ (two /\ raced) =>
               /\ Count(1, "create") = 1
               /\ Count(2, "create") = 1
               /\ Len(TaggedOnTarget(latest)) = 2
        /\ (two /\ ~overlapped) => Len(TaggedOnTarget(latest)) = 1
        /\ OnRemoteMode =>
               /\ Len(TaggedIn(issueComments)) + Len(initIssue)
                    = Len(TaggedIn(initIssue)) + Len(issueComments)
               /\ Len(TaggedIn(commitComments)) + Len(initCommit)
                    = Len(TaggedIn(initCommit)) + Len(commitComments)

\* both listings finished before either create: two comments with the tag
C10_Witness ==
    /\ inputs.commentMode = "commit"
    /\ inputs.updateComment
    /\ runs = 2
    /\ Returned(1) /\ Returned(2)
    /\ raced
    /\ initCommit = << >>
    /\ Len(commitComments) = 2
    /\ Tagged(commitComments[1]) /\ Tagged(commitComments[2])

====
